---- MODULE Spec2Model ----
(***************************************************************************)
(* Model of the film ranking service (src/gpt.py): read_file, top_n and    *)
(* write_file.                                                             *)
(*                                                                         *)
(* A Python str is a sequence of one-character strings.  A movie is the    *)
(* list of the 12 fields of its line; Field(movie, i) is Python's movie[i].*)
(* A rating is parsed to an integer number of tenths (8.1 is 81) and every *)
(* quotient is kept as an exact fraction <<numerator, denominator>> in     *)
(* lowest terms, so no precision is lost before the sort: a score is a     *)
(* number of tenths.                                                       *)
(***************************************************************************)
EXTENDS Integers, Sequences, FiniteSets, TLC

VARIABLES
    data,            \* top_n: the list of movies passed and kept by the caller
    data0,           \* the list as the caller built it, before any call
    genre,           \* top_n: the genre argument
    n,               \* top_n: the n argument
    filtered_movies, \* top_n: local of the last call
    movie_tuples,    \* top_n: local of the last call
    result,          \* what the last call of top_n returned
    prev,            \* what the call before the last returned
    output,          \* content of the file write_file wrote
    pc,              \* position of the main flow
    file,            \* read_file: the lines of the input file
    year,            \* read_file: the year argument
    loaded,          \* read_file: its outcome (status and the list returned)
    lpc              \* position of the loading flow

vars == <<data, data0, genre, n, filtered_movies, movie_tuples, result, prev,
          output, pc, file, year, loaded, lpc>>

rankVars == <<data, data0, genre, n, filtered_movies, movie_tuples, result,
              prev, output, pc>>

loadVars == <<file, year, loaded, lpc>>

(***************************************************************************)
(* Bounds                                                                  *)
(***************************************************************************)
MaxData == 3

MaxN == 3

MaxLines == 3

(***************************************************************************)
(* Python str and list primitives                                          *)
(***************************************************************************)
Field(movie, i) == movie[i + 1]

Min(a, b) == IF a <= b THEN a ELSE b

Whitespace == {" ", "\n", "\t"}

RECURSIVE LStrip(_)
LStrip(s) ==
    IF s # <<>> /\ Head(s) \in Whitespace THEN LStrip(Tail(s)) ELSE s

RECURSIVE RStrip(_)
RStrip(s) ==
    IF s # <<>> /\ s[Len(s)] \in Whitespace
    THEN RStrip(SubSeq(s, 1, Len(s) - 1))
    ELSE s

\* str.strip()
Strip(s) == RStrip(LStrip(s))

\* str.split(sep) for a one-character sep: never an empty list.
RECURSIVE Split(_, _)
Split(s, sep) ==
    IF \E i \in 1..Len(s) : s[i] = sep
    THEN LET i == CHOOSE k \in 1..Len(s) :
                      s[k] = sep /\ \A j \in 1..(k - 1) : s[j] # sep
         IN  <<SubSeq(s, 1, i - 1)>> \o Split(SubSeq(s, i + 1, Len(s)), sep)
    ELSE <<s>>

\* sub in s, on two str: substring containment.
Contains(sub, s) ==
    \E i \in 0..(Len(s) - Len(sub)) : SubSeq(s, i + 1, i + Len(sub)) = sub

Range(seq) == {seq[i] : i \in DOMAIN seq}

Digits == {"0", "1", "2", "3", "4", "5", "6", "7", "8", "9"}

DigitValue(c) ==
    CASE c = "0" -> 0 [] c = "1" -> 1 [] c = "2" -> 2 [] c = "3" -> 3
      [] c = "4" -> 4 [] c = "5" -> 5 [] c = "6" -> 6 [] c = "7" -> 7
      [] c = "8" -> 8 [] c = "9" -> 9

DigitChar(d) ==
    CASE d = 0 -> "0" [] d = 1 -> "1" [] d = 2 -> "2" [] d = 3 -> "3"
      [] d = 4 -> "4" [] d = 5 -> "5" [] d = 6 -> "6" [] d = 7 -> "7"
      [] d = 8 -> "8" [] d = 9 -> "9"

IsDigits(s) == s # <<>> /\ \A i \in DOMAIN s : s[i] \in Digits

RECURSIVE DigitsValue(_)
DigitsValue(s) ==
    IF s = <<>> THEN 0
    ELSE 10 * DigitsValue(SubSeq(s, 1, Len(s) - 1)) + DigitValue(s[Len(s)])

\* Code point of a character, for the comparison of two str.
Ord(c) ==
    CASE c = " " -> 32 [] c = "," -> 44
      [] c = "A" -> 65 [] c = "B" -> 66 [] c = "C" -> 67 [] c = "D" -> 68
      [] OTHER -> 90

\* s < t on two str: code point by code point, a proper prefix is smaller.
RECURSIVE StrLess(_, _)
StrLess(s, t) ==
    IF t = <<>> THEN FALSE
    ELSE IF s = <<>> THEN TRUE
    ELSE IF Head(s) # Head(t) THEN Ord(Head(s)) < Ord(Head(t))
    ELSE StrLess(Tail(s), Tail(t))

(***************************************************************************)
(* Exact fractions                                                         *)
(***************************************************************************)
Abs(x) == IF x < 0 THEN -x ELSE x

RECURSIVE GCD(_, _)
GCD(a, b) == IF b = 0 THEN a ELSE GCD(b, a % b)

\* num / den, den > 0, in lowest terms.
Frac(num, den) ==
    LET g == GCD(Abs(num), den) IN <<num \div g, den \div g>>

FracLess(a, b) == a[1] * b[2] < b[1] * a[2]

FracNeg(a) == <<-a[1], a[2]>>

\* float(s) for a rating written "d.d": the number of tenths.
Float(s) ==
    LET p == Split(Strip(s), ".")
    IN  10 * DigitsValue(p[1]) + DigitValue(p[2][1])

(***************************************************************************)
(* Inputs of top_n                                                         *)
(***************************************************************************)
\* One line of the catalogue as read_file returns it: 12 fields, of which
\* top_n reads the title [1], the genres [2], the cast [5] and the rating [8].
Movie(title, genres, cast, rating) ==
    <<<<"1">>, title, genres, <<"d">>, <<"D">>, cast, <<"2", "0", "1", "4">>,
      <<"9">>, rating, <<"1">>, <<"1">>, <<"1">>>>

Movies ==
    { Movie(<<"A">>, <<"A", ",", "S">>, <<"X">>, <<"8", ".", "1">>),
      Movie(<<"B">>, <<"S">>, <<"X", ",", " ", "Y">>, <<"8", ".", "1">>),
      Movie(<<"C">>, <<"H">>, <<"Y">>, <<"8", ".", "2">>),
      Movie(<<"A", "B">>, <<"A", ",", " ", "S">>, <<"X", "Y">>, <<"9", ".", "0">>),
      Movie(<<"B">>, <<"H">>, <<>>, <<"7", ".", "0">>) }

RECURSIVE SeqsUpTo(_, _)
SeqsUpTo(S, k) ==
    IF k = 0 THEN {<<>>}
    ELSE LET shorter == SeqsUpTo(S, k - 1)
         IN  shorter \cup {Append(q, x) : q \in {r \in shorter : Len(r) = k - 1}, x \in S}

Datasets == SeqsUpTo(Movies, MaxData)

GenreFilters ==
    { <<>>, <<"A">>, <<"S">>, <<"A", ",", "S">>, <<"A", ",", " ", "S">> }

(***************************************************************************)
(* top_n                                                                   *)
(***************************************************************************)
\* genres = set(genre.split(',')) if genre else set()
genres_of(g) == IF g # <<>> THEN Range(Split(g, ",")) ELSE {}

\* movie_genres = set(g.strip() for g in movie[2].split(','))
movie_genres(movie) == {Strip(g) : g \in Range(Split(Field(movie, 2), ","))}

\* if not genres or genres.intersection(movie_genres)
passes(movie, g) ==
    genres_of(g) = {} \/ (genres_of(g) \cap movie_genres(movie)) # {}

filter_movies(d, g) == SelectSeq(d, LAMBDA movie : passes(movie, g))

\* The loop of highest_rating_for_actor over all_movies[i..], from the
\* running maximum highest_rating.
RECURSIVE highest_from(_, _, _, _)
highest_from(actor_name, all_movies, i, highest_rating) ==
    IF i > Len(all_movies) THEN highest_rating
    ELSE LET movie == all_movies[i]
             rating == Float(Field(movie, 8))
         IN  IF Contains(actor_name, Field(movie, 5)) /\ rating > highest_rating
             THEN highest_from(actor_name, all_movies, i + 1, rating)
             ELSE highest_from(actor_name, all_movies, i + 1, highest_rating)

highest_rating_for_actor(actor_name, all_movies) ==
    highest_from(actor_name, all_movies, 1, 0)

RECURSIVE total_from(_, _, _)
total_from(actors, all_movies, i) ==
    IF i > Len(actors) THEN 0
    ELSE highest_rating_for_actor(Strip(actors[i]), all_movies)
         + total_from(actors, all_movies, i + 1)

\* The mean over the cast of the actors' highest ratings, read from the
\* filtered list instead of the whole list.
actor_rating_filtered(movie, d, filtered) ==
    LET actors == Split(Field(movie, 5), ",")
    IN  IF actors # <<>>
        THEN Frac(total_from(actors, filtered, 1), Len(actors))
        ELSE <<0, 1>>

\* actors = movie[5].split(','); the sum of highest_rating_for_actor(
\* actor.strip(), data) over actors, divided by len(actors).
actor_rating_of(movie, d, filtered) ==
    LET actors == Split(Field(movie, 5), ",")
    IN  IF actors # <<>>
        THEN Frac(total_from(actors, d, 1), Len(actors))
        ELSE <<0, 1>>

\* (title, rating, actor_rating)
movie_tuple(movie, d, filtered) ==
    <<Field(movie, 1), Float(Field(movie, 8)), actor_rating_of(movie, d, filtered)>>

movie_tuples_of(d, g) ==
    LET filtered == filter_movies(d, g)
    IN  [i \in 1..Len(filtered) |-> movie_tuple(filtered[i], d, filtered)]

\* (rating + actor_rating) / 2
average_rating(rating, actor_rating) ==
    Frac(rating * actor_rating[2] + actor_rating[1], 2 * actor_rating[2])

\* f"{x:.1f}": the nearest number of tenths.  A tie that is no binary
\* fraction (an odd multiple of 1/20 that is not a multiple of 1/4) goes
\* the way the nearest double lies, which tieUp decides; an exact tie goes
\* to the even digit.
Round1(x, tieUp) ==
    LET lo == x[1] \div x[2]
        twice == 2 * (x[1] - lo * x[2])
    IN  IF twice < x[2] THEN lo
        ELSE IF twice > x[2] THEN lo + 1
        ELSE IF (2 * lo + 1) % 5 = 0 THEN (IF lo % 2 = 0 THEN lo ELSE lo + 1)
        ELSE IF tieUp THEN lo + 1 ELSE lo

\* A sort key that ranks by the score as rendered, to one decimal.
sort_key_rounded(movie_tuple_) ==
    <<FracNeg(<<Round1(average_rating(movie_tuple_[2], movie_tuple_[3]), TRUE), 1>>),
      movie_tuple_[1]>>

\* A sort key without the negation: ascending scores.
sort_key_ascending(movie_tuple_) ==
    <<average_rating(movie_tuple_[2], movie_tuple_[3]), movie_tuple_[1]>>

\* return (-average_rating, title)
sort_key(movie_tuple_) ==
    <<FracNeg(average_rating(movie_tuple_[2], movie_tuple_[3])), movie_tuple_[1]>>

\* k1 < k2 on two keys (a tuple comparison).
KeyLess(k1, k2) ==
    \/ FracLess(k1[1], k2[1])
    \/ k1[1] = k2[1] /\ StrLess(k1[2], k2[2])

\* sorted(): stable, so x goes after every element whose key is not greater.
RECURSIVE Insert(_, _)
Insert(sortedSeq, x) ==
    IF sortedSeq = <<>> THEN <<x>>
    ELSE LET last == sortedSeq[Len(sortedSeq)]
         IN  IF KeyLess(sort_key(x), sort_key(last))
             THEN Append(Insert(SubSeq(sortedSeq, 1, Len(sortedSeq) - 1), x), last)
             ELSE Append(sortedSeq, x)

RECURSIVE sorted(_)
sorted(seq) ==
    IF seq = <<>> THEN <<>>
    ELSE Insert(sorted(SubSeq(seq, 1, Len(seq) - 1)), seq[Len(seq)])

\* sorted_movies[:n] whatever n is.
top_movies_always_sliced(sorted_movies, k) ==
    SubSeq(sorted_movies, 1, Min(k, Len(sorted_movies)))

\* sorted_movies[:n] if n > 0 else sorted_movies
top_movies(sorted_movies, k) ==
    IF k > 0 THEN SubSeq(sorted_movies, 1, Min(k, Len(sorted_movies)))
    ELSE sorted_movies

\* [(title, (rating + actor_rating) / 2) for ... in top_movies]
top_n(d, g, k) ==
    LET top == top_movies(sorted(movie_tuples_of(d, g)), k)
    IN  [i \in 1..Len(top) |-> <<top[i][1], average_rating(top[i][2], top[i][3])>>]

\* The caller's list after a call that drops the records it filters out from
\* the list itself.
data_after_filtered_in_place(d, g) == filter_movies(d, g)

\* The caller's list after a call: top_n assigns to no element of data and
\* to no field of a movie.
data_after(d, g) == d

(***************************************************************************)
(* write_file                                                              *)
(***************************************************************************)
RECURSIVE NatStr(_)
NatStr(k) ==
    IF k < 10 THEN <<DigitChar(k)>>
    ELSE Append(NatStr(k \div 10), DigitChar(k % 10))

\* f"{title}, {avg_rating:.1f}"
render(entry, tieUp) ==
    LET t == Round1(entry[2], tieUp)
    IN  entry[1] \o <<",", " ">> \o NatStr(t \div 10) \o <<".">> \o <<DigitChar(t % 10)>>

\* The lines written, a newline after each one but the last.
RECURSIVE written(_, _, _)
written(top, i, tieUp) ==
    IF i > Len(top) THEN <<>>
    ELSE IF i < Len(top)
         THEN render(top[i], tieUp) \o <<"\n">> \o written(top, i + 1, tieUp)
         ELSE render(top[i], tieUp)

(***************************************************************************)
(* The ranking flow: the caller holds a list, calls top_n on it, once or   *)
(* twice in a row with the same arguments, and writes what the last call   *)
(* returned.                                                               *)
(***************************************************************************)
LoadInit ==
    /\ file = <<>>
    /\ year = 0
    /\ loaded = [status |-> "none", movies |-> <<>>]
    /\ lpc = "idle"

Init ==
    /\ data \in Datasets
    /\ data0 = data
    /\ genre \in GenreFilters
    /\ n \in 0..MaxN
    /\ filtered_movies = <<>>
    /\ movie_tuples = <<>>
    /\ result = <<>>
    /\ prev = <<>>
    /\ output = <<>>
    /\ pc = "ready"
    /\ LoadInit

TopN ==
    /\ pc \in {"ready", "ranked"}
    /\ filtered_movies' = filter_movies(data, genre)
    /\ movie_tuples' = movie_tuples_of(data, genre)
    /\ result' = top_n(data, genre, n)
    /\ prev' = result
    /\ data' = data_after(data, genre)
    /\ pc' = IF pc = "ready" THEN "ranked" ELSE "reranked"
    /\ UNCHANGED <<data0, genre, n, output>>
    /\ UNCHANGED loadVars

WriteFile ==
    /\ pc \in {"ranked", "reranked"}
    /\ \E tieUp \in BOOLEAN : output' = written(result, 1, tieUp)
    /\ pc' = "written"
    /\ UNCHANGED <<data, data0, genre, n, filtered_movies, movie_tuples, result,
                   prev>>
    /\ UNCHANGED loadVars

Next == TopN \/ WriteFile

Spec == Init /\ [][Next]_vars

(***************************************************************************)
(* read_file                                                               *)
(***************************************************************************)
RECURSIVE Join(_, _)
Join(fields, sep) ==
    IF Len(fields) = 1 THEN fields[1]
    ELSE fields[1] \o <<sep>> \o Join(Tail(fields), sep)

\* A line of the file as the iteration over it yields it: 12 fields joined
\* by semicolons, the line feed at its end.
Line(id, yearField) ==
    Join(<<id, <<"T">>, <<"G">>, <<"d">>, <<"D">>, <<"X">>, yearField, <<"9">>,
           <<"8", ".", "1">>, <<"1">>, <<"1">>, <<"1">>>>, ";") \o <<"\n">>

HeaderLine == Line(<<"I", "d">>, <<"Y", "e", "a", "r">>)

Lines ==
    { HeaderLine,
      Line(<<"1">>, <<"2", "0", "1", "4">>),
      Line(<<"2">>, <<"2", "0", "1", "6">>),
      <<"3", ";", "T", ";", "G", "\n">>,
      Line(<<"4">>, <<"2", "0", "x", "6">>) }

Files == SeqsUpTo(Lines, MaxLines)

Years == {0, 2015, 2016}

\* int(s) succeeds on decimal digits, surrounding whitespace allowed.
IsInt(s) == IsDigits(Strip(s))

int(s) == DigitsValue(Strip(s))

\* The for loop of read_file from line i on, movies being the list so far.
\* An exception leaves the function at once and nothing is returned.
RECURSIVE read_from(_, _, _, _)
read_from(lines, i, y, movies) ==
    IF i > Len(lines) THEN [status |-> "ok", movies |-> movies]
    ELSE LET row == Split(Strip(lines[i]), ";")
         IN  IF Len(row) < 7 THEN [status |-> "IndexError", movies |-> <<>>]
             ELSE IF ~IsInt(Field(row, 6))
                  THEN [status |-> "ValueError", movies |-> <<>>]
             ELSE IF int(Field(row, 6)) >= y
                  THEN read_from(lines, i + 1, y, Append(movies, row))
             ELSE read_from(lines, i + 1, y, movies)

\* next(file) consumes the first line whatever it is, and raises
\* StopIteration on a file without lines.
read_file(lines, y) ==
    IF lines = <<>> THEN [status |-> "StopIteration", movies |-> <<>>]
    ELSE read_from(lines, 2, y, <<>>)

InitLoad ==
    /\ file \in Files
    /\ year \in Years
    /\ loaded = [status |-> "none", movies |-> <<>>]
    /\ lpc = "idle"
    /\ data = <<>>
    /\ data0 = <<>>
    /\ genre = <<>>
    /\ n = 0
    /\ filtered_movies = <<>>
    /\ movie_tuples = <<>>
    /\ result = <<>>
    /\ prev = <<>>
    /\ output = <<>>
    /\ pc = "ready"

ReadFile ==
    /\ lpc = "idle"
    /\ loaded' = read_file(file, year)
    /\ lpc' = "done"
    /\ UNCHANGED <<file, year>>
    /\ UNCHANGED rankVars

NextLoad == ReadFile

SpecLoad == InitLoad /\ [][NextLoad]_vars

(***************************************************************************)
(* Properties of top_n                                                     *)
(***************************************************************************)
FracLeq(a, b) == a = b \/ FracLess(a, b)

StrLeq(s, t) == s = t \/ StrLess(s, t)

\* m: the number of records of data that pass the genre filter.
MatchCount == Cardinality({i \in DOMAIN data : passes(data[i], genre)})

\* The place in the filtered list of the record at place i of d.
Pos(d, g, i) == Cardinality({j \in 1..i : passes(d[j], g)})

\* C1: top_n returns min(n, m) entries when n > 0 and m entries when n = 0,
\* m being the number of records that pass the genre filter; a limit larger
\* than the dataset returns every passing record.
C1_Length ==
    pc # "ready" =>
        Len(result) = IF n > 0 THEN Min(n, MatchCount) ELSE MatchCount

C1_Witness ==
    /\ pc = "ranked"
    /\ n > Len(data)
    /\ MatchCount >= 2
    /\ Len(result) = MatchCount

\* C2: what top_n returns is sorted: of two adjacent entries the first has
\* the greater score, or the scores are equal and the first title is not
\* greater than the second.
C2_Sorted ==
    pc # "ready" =>
        \A i \in 1..(Len(result) - 1) :
            \/ FracLess(result[i + 1][2], result[i][2])
            \/ result[i][2] = result[i + 1][2] /\ StrLeq(result[i][1], result[i + 1][1])

C2_Witness ==
    /\ pc = "ranked"
    /\ Len(result) >= 3
    /\ \E i \in 1..(Len(result) - 1) :
           result[i][2] = result[i + 1][2] /\ StrLess(result[i][1], result[i + 1][1])
    /\ \E i \in 1..(Len(result) - 1) : FracLess(result[i + 1][2], result[i][2])

\* The set of trimmed tokens of a comma-separated string.
TrimmedTokens(s) == {Strip(t) : t \in Range(Split(s, ","))}

\* C3: with a non-empty filter a record passes exactly when the trimmed
\* tokens of the filter and the trimmed genre tokens of the record share a
\* token; with the empty filter every record passes.
C3_TrimmedTokenMatch ==
    pc # "ready" =>
        filtered_movies =
            SelectSeq(data, LAMBDA movie :
                genre = <<>>
                \/ (TrimmedTokens(genre) \cap TrimmedTokens(Field(movie, 2))) # {})

\* The non-empty trimmed names of the cast of the records of d.
Actors(d) ==
    UNION {TrimmedTokens(Field(d[i], 5)) : i \in DOMAIN d} \ {<<>>}

MaxOf(S) == IF S = {} THEN 0 ELSE CHOOSE x \in S : \A y \in S : y <= x

\* C4: the rating top_n uses for an actor is the maximum rating among
\* exactly the records whose trimmed cast list holds the actor's name as a
\* whole element.
C4_WholeNameMax ==
    pc # "ready" =>
        \A a \in Actors(data) :
            highest_rating_for_actor(a, data) =
                MaxOf({Float(Field(data[i], 8)) :
                         i \in {j \in DOMAIN data : a \in TrimmedTokens(Field(data[j], 5))}})

\* C5: actor ratings come from the whole list: a record that passes the
\* filter of the call and another filter (the empty one included) has the
\* same blended score under both.
C5_ScoreIndependentOfFilter ==
    pc = "ranked" =>
        \A g2 \in GenreFilters :
            LET others == movie_tuples_of(data, g2)
            IN  \A i \in DOMAIN data :
                    (passes(data[i], genre) /\ passes(data[i], g2)) =>
                        LET here == movie_tuples[Pos(data, genre, i)]
                            there == others[Pos(data, g2, i)]
                        IN  /\ here[1] = there[1]
                            /\ average_rating(here[2], here[3])
                                   = average_rating(there[2], there[3])

\* A record passes a non-empty filter and its actor rating is above the
\* rating of every record that passes: it comes from a record filtered out.
C5_Witness ==
    /\ pc = "ranked"
    /\ genre # <<>>
    /\ \E k \in DOMAIN movie_tuples :
           \A j \in DOMAIN movie_tuples :
               FracLess(<<movie_tuples[j][2], 1>>, movie_tuples[k][3])

\* C6: a record with an empty cast field takes its own rating as actor
\* rating, so its blended score is its own rating.
C6_EmptyCastOwnRating ==
    pc # "ready" =>
        \A k \in DOMAIN filtered_movies :
            Field(filtered_movies[k], 5) = <<>> =>
                average_rating(movie_tuples[k][2], movie_tuples[k][3])
                    = <<Float(Field(filtered_movies[k], 8)), 1>>

FracSub(a, b) == Frac(a[1] * b[2] - b[1] * a[2], a[2] * b[2])

\* Two different scores less than one tenth apart: the only scores that can
\* render the same to one decimal, whichever way a tie goes.
CloseScores(a, b) ==
    /\ a # b
    /\ FracLess(FracSub(a, b), <<1, 1>>)
    /\ FracLess(FracSub(b, a), <<1, 1>>)

\* C10: top_n compares and returns unrounded scores: of two entries whose
\* different scores can render the same to one decimal the one with the
\* higher score comes first whatever the titles, and every score returned
\* is the exact mean of a passing record's rating and actor rating.
C10_FullPrecision ==
    pc # "ready" =>
        /\ \A i, j \in DOMAIN result :
               (i < j /\ CloseScores(result[i][2], result[j][2])) =>
                   FracLess(result[j][2], result[i][2])
        /\ \A i \in DOMAIN result : \E k \in DOMAIN movie_tuples :
               /\ result[i][1] = movie_tuples[k][1]
               /\ result[i][2] = average_rating(movie_tuples[k][2], movie_tuples[k][3])

\* Two entries written with the same decimal, the higher score first though
\* its title is the greater, and the score returned is no whole tenth.
C10_Witness ==
    /\ pc = "written"
    /\ \E i, j \in DOMAIN result :
           /\ i < j
           /\ FracLess(result[j][2], result[i][2])
           /\ result[i][2][2] # 1
           /\ Round1(result[i][2], TRUE) = Round1(result[j][2], TRUE)
           /\ Round1(result[i][2], FALSE) = Round1(result[j][2], FALSE)
           /\ StrLess(result[j][1], result[i][1])

(***************************************************************************)
(* Properties of read_file                                                 *)
(***************************************************************************)
WellFormed(line) ==
    LET row == Split(Strip(line), ";")
    IN  Len(row) >= 7 /\ IsInt(Field(row, 6))

HasHeader(lines) == lines # <<>> /\ lines[1] = HeaderLine

DataLines(lines) == IF HasHeader(lines) THEN Tail(lines) ELSE lines

RowsFrom(lines, y) ==
    LET kept == SelectSeq(lines, LAMBDA l :
                    WellFormed(l) /\ int(Field(Split(Strip(l), ";"), 6)) >= y)
    IN  [i \in 1..Len(kept) |-> Split(Strip(kept[i]), ";")]

\* C8: read_file returns, in file order, the data lines whose year is at
\* least the minimum, split into fields; a header is skipped if there is
\* one, and without a header no data line is lost.
C8_AllDataLines ==
    (/\ lpc = "done"
     /\ file # <<>>
     /\ \A i \in DOMAIN DataLines(file) : WellFormed(DataLines(file)[i])) =>
        /\ loaded.status = "ok"
        /\ loaded.movies = RowsFrom(DataLines(file), year)

\* C9: a malformed data line is skipped: every well-formed data line before
\* or after it with a year of at least the minimum is returned, and no
\* error reaches the caller.
C9_SkipMalformed ==
    (/\ lpc = "done"
     /\ HasHeader(file)
     /\ \E i \in DOMAIN DataLines(file) : ~WellFormed(DataLines(file)[i])) =>
        /\ loaded.status = "ok"
        /\ loaded.movies = RowsFrom(DataLines(file), year)

====
